---- MODULE Spec2Model ----
(***************************************************************************)
(* Model of penpal's parent-side connection establishment                  *)
(* (src/parent/connectToChild.ts).  The collaborators the file imports     *)
(* (createDestructor, startConnectionTimeout, monitorIframeRemoval, the    *)
(* Syn/Ack handler factories, serializeMethods, the origin resolver) are   *)
(* modelled from their documented contracts.                               *)
(***************************************************************************)
EXTENDS Integers, Sequences, FiniteSets, TLC

\* ---------------------------------------------------------------- bounds
MaxDeliveries == 3
MaxDestroyCalls == 2

\* ------------------------------------------------------------ input sets
ChildOrigin == "https://child.example"
OtherOrigin == "https://other.example"
NullOrigin == "null"
Wildcard == "*"
Absent == "absent"

Origins == {ChildOrigin, OtherOrigin, NullOrigin}

\* methodNames arrays an Ack may carry: empty, with a repeated name, plain.
NameLists == {<<>>, <<"add", "add">>, <<"multiply">>}

Range(seq) == {seq[i] : i \in DOMAIN seq}

\* MessageEvent as seen by the listener: event.data (possibly missing),
\* event.data.penpal, event.data.methodNames and event.origin.
NoEvent == [hasData |-> FALSE, penpal |-> "", methodNames |-> <<>>, origin |-> ""]

Events ==
    {[hasData |-> FALSE, penpal |-> "", methodNames |-> <<>>, origin |-> ChildOrigin],
     [hasData |-> TRUE, penpal |-> "call", methodNames |-> <<>>, origin |-> ChildOrigin]}
    \cup {[hasData |-> TRUE, penpal |-> "syn", methodNames |-> <<>>, origin |-> o] :
              o \in Origins}
    \cup {[hasData |-> TRUE, penpal |-> "ack", methodNames |-> n, origin |-> o] :
              n \in NameLists, o \in Origins}

\* Options of one call of connectToChild.  methods maps a name to a callable.
OptionSets ==
    [childOrigin : {Absent, ChildOrigin, NullOrigin, Wildcard},
     iframeSrc : {Absent, ChildOrigin},
     timeout : {[given |-> FALSE, ms |-> 0], [given |-> TRUE, ms |-> 0], [given |-> TRUE, ms |-> 500]},
     methods : {[n \in {} |-> "fn"], [n \in {"add"} |-> "fn"]}]

\* Failure causes.
NoError == "none"
ConnectionTimedOut == "ConnectionTimedOut"
ConnectionDestroyed == "ConnectionDestroyed"
PeerLost == "PeerLost"
PrincipalUnresolved == "PrincipalUnresolved"

\* ----------------------------------------------------------------- state
VARIABLES
    pc,               \* "init" | "running" | "threw": position of the caller
    options,          \* the options connectToChild was called with
    childOrigin,      \* expected principal
    originForSending, \* outbound-send principal
    serializedMethods,\* method descriptor set
    promise,          \* [state, value, error]: the handle's eventual result
    destroyed,        \* the destructor's one-shot flag
    destroyCause,     \* the cause the first destroy was called with
    callbacks,        \* the destructor's cleanup list, in registration order
    cleanupRuns,      \* how often each cleanup has run
    listening,        \* handleMessage is registered on parentWindow
    timer,            \* "off" | "armed" | "stopped" | "fired"
    monitor,          \* "idle" | "watching" | "stopped"
    hsState,          \* "AwaitingSyn" | "AwaitingAck" | "Established"
    sent,             \* the messages posted to the child, in order
    delivered,        \* number of message events dispatched so far
    destroyCalls,     \* number of calls of the handle's destroy()
    callSender,       \* the interface the Ack handler has built
    acks,             \* methodNames of the expected principal's Acks the listener got
    lastEvent         \* the step just taken: [kind, event]

vars == <<pc, options, childOrigin, originForSending, serializedMethods, promise,
          destroyed, destroyCause, callbacks, cleanupRuns, listening, timer, monitor,
          hsState, sent, delivered, destroyCalls, callSender, acks, lastEvent>>

\* ------------------------------------------------- the eventual result
Undefined == [defined |-> FALSE, keys |-> {}]

PendingPromise == [state |-> "pending", value |-> Undefined, error |-> NoError]

\* resolve and reject of a Promise executor: the first settlement wins.
resolve(p, v) ==
    IF p.state = "pending" THEN [p EXCEPT !.state = "fulfilled", !.value = v] ELSE p

\* Variant: a rejection that overwrites an already settled result.
reject_Overwrite(p, e) == [p EXCEPT !.state = "rejected", !.error = e]

reject(p, e) ==
    IF p.state = "pending" THEN [p EXCEPT !.state = "rejected", !.error = e] ELSE p

\* ------------------------------------------------------- collaborators
serializeMethods(methods) == DOMAIN methods

\* createDestructor: onDestroy(callback) appends to the cleanup list.
CleanupNames == {"stopWatch", "removeListener"}

\* Variant: the callback removes the listener and never rejects.
onDestroyCallback_NoReject(error) ==
    /\ listening' = FALSE
    /\ promise' = promise

\* Variant: the callback rejects whether or not an error was passed.
onDestroyCallback_AlwaysReject(error) ==
    /\ listening' = FALSE
    /\ promise' = reject(promise, error)

\* Variant: the callback rejects and leaves the listener registered.
onDestroyCallback_KeepListener(error) ==
    /\ listening' = listening
    /\ promise' = IF error # NoError THEN reject(promise, error) ELSE promise

\* The callback connectToChild registers with onDestroy.
onDestroyCallback(error) ==
    /\ listening' = FALSE
    /\ promise' = IF error # NoError THEN reject(promise, error) ELSE promise

\* The cleanup monitorIframeRemoval registers: stop watching the iframe.
stopWatch(error) ==
    monitor' = IF monitor = "watching" THEN "stopped" ELSE monitor

\* createDestructor: callbacks.forEach(callback => callback(error)).
runCleanups(error) ==
    /\ cleanupRuns' = [c \in CleanupNames |->
                          IF c \in Range(callbacks) THEN cleanupRuns[c] + 1
                          ELSE cleanupRuns[c]]
    /\ IF "stopWatch" \in Range(callbacks) THEN stopWatch(error)
       ELSE UNCHANGED monitor
    /\ IF "removeListener" \in Range(callbacks) THEN onDestroyCallback(error)
       ELSE UNCHANGED <<listening, promise>>

\* createDestructor: destroy(error) runs every cleanup once, on the first call.
destroy(error) ==
    IF destroyed
    THEN UNCHANGED <<destroyed, destroyCause, cleanupRuns, listening, promise, monitor>>
    ELSE /\ destroyed' = TRUE
         /\ destroyCause' = error
         /\ runCleanups(error)

\* startConnectionTimeout(timeout, destroy): armed only for a positive timeout.
startConnectionTimeout(timeout) ==
    IF timeout.given /\ timeout.ms > 0 THEN "armed" ELSE "off"

\* The stop function startConnectionTimeout returns.
stopConnectionTimeout(t) == IF t = "armed" THEN "stopped" ELSE t

\* handleSynMessage: reply to a Syn of the expected principal with an Ack.
handleSynMessage(event) ==
    IF event.origin = childOrigin
    THEN /\ sent' = Append(sent, [penpal |-> "ack", methodNames |-> serializedMethods,
                                  target |-> originForSending])
         /\ hsState' = IF hsState = "AwaitingSyn" THEN "AwaitingAck" ELSE hsState
    ELSE UNCHANGED <<sent, hsState>>

\* handleAckMessage: the value it returns (the call sender, or nothing).
AckCallSender(event) ==
    IF event.origin = childOrigin /\ hsState # "Established"
    THEN [defined |-> TRUE, keys |-> Range(event.methodNames)]
    ELSE Undefined

\* Variant: every Ack of the expected principal rebuilds the interface.
handleAckMessage_Rebuilds(event) ==
    /\ hsState' = IF event.origin = childOrigin THEN "Established" ELSE hsState
    /\ callSender' = IF event.origin = childOrigin
                     THEN [defined |-> TRUE, keys |-> Range(event.methodNames)]
                     ELSE callSender
    /\ UNCHANGED sent

\* handleAckMessage: its effect on the handshake state and the interface it keeps.
handleAckMessage(event) ==
    /\ hsState' = IF event.origin = childOrigin THEN "Established" ELSE hsState
    /\ callSender' = IF AckCallSender(event).defined THEN AckCallSender(event)
                     ELSE callSender
    /\ UNCHANGED sent

\* ------------------------------------------------ connectToChild itself
\* Variant: an interface without methods counts as no interface.
handleMessage_EmptyIsFalsy(event) ==
    IF ~event.hasData
    THEN UNCHANGED <<sent, hsState, callSender, timer, promise>>
    ELSE IF event.penpal = "syn"
    THEN /\ handleSynMessage(event)
         /\ UNCHANGED callSender
         /\ UNCHANGED <<timer, promise>>
    ELSE IF event.penpal = "ack"
    THEN /\ handleAckMessage(event)
         /\ IF AckCallSender(event).defined /\ AckCallSender(event).keys # {}
            THEN /\ timer' = stopConnectionTimeout(timer)
                 /\ promise' = resolve(promise, AckCallSender(event))
            ELSE UNCHANGED <<timer, promise>>
    ELSE UNCHANGED <<sent, hsState, callSender, timer, promise>>

\* Variant: the Ack branch resolves without looking at what the handler returned.
handleMessage_NoCallSenderCheck(event) ==
    IF ~event.hasData
    THEN UNCHANGED <<sent, hsState, callSender, timer, promise>>
    ELSE IF event.penpal = "syn"
    THEN /\ handleSynMessage(event)
         /\ UNCHANGED callSender
         /\ UNCHANGED <<timer, promise>>
    ELSE IF event.penpal = "ack"
    THEN /\ handleAckMessage(event)
         /\ timer' = stopConnectionTimeout(timer)
         /\ promise' = resolve(promise, AckCallSender(event))
    ELSE UNCHANGED <<sent, hsState, callSender, timer, promise>>

\* Variant: the Syn branch stops the connection timeout.
handleMessage_SynStopsTimeout(event) ==
    IF ~event.hasData
    THEN UNCHANGED <<sent, hsState, callSender, timer, promise>>
    ELSE IF event.penpal = "syn"
    THEN /\ handleSynMessage(event)
         /\ UNCHANGED callSender
         /\ timer' = stopConnectionTimeout(timer)
         /\ UNCHANGED promise
    ELSE IF event.penpal = "ack"
    THEN /\ handleAckMessage(event)
         /\ IF AckCallSender(event).defined
            THEN /\ timer' = stopConnectionTimeout(timer)
                 /\ promise' = resolve(promise, AckCallSender(event))
            ELSE UNCHANGED <<timer, promise>>
    ELSE UNCHANGED <<sent, hsState, callSender, timer, promise>>

\* Variant: the Ack branch resolves and leaves the connection timeout running.
handleMessage_ResolveWithoutStop(event) ==
    IF ~event.hasData
    THEN UNCHANGED <<sent, hsState, callSender, timer, promise>>
    ELSE IF event.penpal = "syn"
    THEN /\ handleSynMessage(event)
         /\ UNCHANGED callSender
         /\ UNCHANGED <<timer, promise>>
    ELSE IF event.penpal = "ack"
    THEN /\ handleAckMessage(event)
         /\ IF AckCallSender(event).defined
            THEN /\ timer' = timer
                 /\ promise' = resolve(promise, AckCallSender(event))
            ELSE UNCHANGED <<timer, promise>>
    ELSE UNCHANGED <<sent, hsState, callSender, timer, promise>>

\* Variant: the Syn branch returns without calling the Syn handler.
handleMessage_DropsSyn(event) ==
    IF ~event.hasData
    THEN UNCHANGED <<sent, hsState, callSender, timer, promise>>
    ELSE IF event.penpal = "syn"
    THEN UNCHANGED <<sent, hsState, callSender, timer, promise>>
    ELSE IF event.penpal = "ack"
    THEN /\ handleAckMessage(event)
         /\ IF AckCallSender(event).defined
            THEN /\ timer' = stopConnectionTimeout(timer)
                 /\ promise' = resolve(promise, AckCallSender(event))
            ELSE UNCHANGED <<timer, promise>>
    ELSE UNCHANGED <<sent, hsState, callSender, timer, promise>>

\* Variant: every message that is not a Syn is handled as an Ack.
handleMessage_UntaggedAsAck(event) ==
    IF ~event.hasData
    THEN UNCHANGED <<sent, hsState, callSender, timer, promise>>
    ELSE IF event.penpal = "syn"
    THEN /\ handleSynMessage(event)
         /\ UNCHANGED callSender
         /\ UNCHANGED <<timer, promise>>
    ELSE /\ handleAckMessage(event)
         /\ IF AckCallSender(event).defined
            THEN /\ timer' = stopConnectionTimeout(timer)
                 /\ promise' = resolve(promise, AckCallSender(event))
            ELSE UNCHANGED <<timer, promise>>

\* The message listener.
handleMessage(event) ==
    IF ~event.hasData
    THEN UNCHANGED <<sent, hsState, callSender, timer, promise>>
    ELSE IF event.penpal = "syn"
    THEN /\ handleSynMessage(event)
         /\ UNCHANGED callSender
         /\ UNCHANGED <<timer, promise>>
    ELSE IF event.penpal = "ack"
    THEN /\ handleAckMessage(event)
         /\ IF AckCallSender(event).defined
            THEN /\ timer' = stopConnectionTimeout(timer)
                 /\ promise' = resolve(promise, AckCallSender(event))
            ELSE UNCHANGED <<timer, promise>>
    ELSE UNCHANGED <<sent, hsState, callSender, timer, promise>>

\* Variant: the handle's destroy() runs the cleanups itself, past the one-shot flag.
connectionDestroy_RunsCleanup ==
    /\ destroyed' = TRUE
    /\ destroyCause' = IF destroyed THEN destroyCause ELSE NoError
    /\ runCleanups(NoError)

\* Variant: the handle's destroy() passes an error on to the destructor.
connectionDestroy_PassesError == destroy(ConnectionDestroyed)

\* The destroy() of the returned Connection: destroy without an error.
connectionDestroy == destroy(NoError)

Init ==
    /\ pc = "init"
    /\ options \in OptionSets
    /\ childOrigin = Absent
    /\ originForSending = Absent
    /\ serializedMethods = {}
    /\ promise = PendingPromise
    /\ destroyed = FALSE
    /\ destroyCause = NoError
    /\ callbacks = <<>>
    /\ cleanupRuns = [c \in CleanupNames |-> 0]
    /\ listening = FALSE
    /\ timer = "off"
    /\ monitor = "idle"
    /\ hsState = "AwaitingSyn"
    /\ sent = <<>>
    /\ delivered = 0
    /\ destroyCalls = 0
    /\ callSender = Undefined
    /\ acks = <<>>
    /\ lastEvent = [kind |-> "none", event |-> NoEvent]

\* The principal the attempt expects: the option, else the iframe's origin.
ResolvedOrigin(o) == IF o.childOrigin # Absent THEN o.childOrigin ELSE o.iframeSrc

\* Variant: messages are always posted to the expected origin itself.
OriginForSending_NoWildcard(origin) == origin

\* originForSending: "*" for the "null" origin, else the origin.
OriginForSending(origin) == IF origin = NullOrigin THEN Wildcard ELSE origin

\* Variant: connectToChild goes on although no origin could be determined.
Connect_NoValidation ==
    /\ pc = "init"
    /\ pc' = "running"
    /\ childOrigin' = ResolvedOrigin(options)
    /\ originForSending' = OriginForSending(ResolvedOrigin(options))
    /\ serializedMethods' = serializeMethods(options.methods)
    /\ timer' = startConnectionTimeout(options.timeout)
    /\ listening' = TRUE
    /\ monitor' = "watching"
    /\ callbacks' = <<"stopWatch", "removeListener">>
    /\ lastEvent' = [kind |-> "connect", event |-> NoEvent]
    /\ UNCHANGED <<options, promise, destroyed, destroyCause, cleanupRuns, hsState,
                   sent, delivered, destroyCalls, acks, callSender>>

\* connectToChild(options) returning a Connection.
Connect ==
    /\ pc = "init"
    /\ ResolvedOrigin(options) # Absent
    /\ pc' = "running"
    /\ childOrigin' = ResolvedOrigin(options)
    /\ originForSending' = OriginForSending(ResolvedOrigin(options))
    /\ serializedMethods' = serializeMethods(options.methods)
    /\ timer' = startConnectionTimeout(options.timeout)
    /\ listening' = TRUE
    /\ monitor' = "watching"
    /\ callbacks' = <<"stopWatch", "removeListener">>
    /\ lastEvent' = [kind |-> "connect", event |-> NoEvent]
    /\ UNCHANGED <<options, promise, destroyed, destroyCause, cleanupRuns, hsState,
                   sent, delivered, destroyCalls, acks, callSender>>

\* connectToChild(options) throwing: no origin given and none derivable.
ConnectThrows ==
    /\ pc = "init"
    /\ ResolvedOrigin(options) = Absent
    /\ pc' = "threw"
    /\ lastEvent' = [kind |-> "throw", event |-> NoEvent]
    /\ UNCHANGED <<options, childOrigin, originForSending, serializedMethods, promise,
                   destroyed, destroyCause, callbacks, cleanupRuns, listening, timer,
                   monitor, hsState, sent, delivered, destroyCalls, acks, callSender>>

\* A message event is dispatched on parentWindow.
Deliver(event) ==
    /\ pc = "running"
    /\ delivered < MaxDeliveries
    /\ delivered' = delivered + 1
    /\ lastEvent' = [kind |-> "message", event |-> event]
    /\ IF listening THEN handleMessage(event)
       ELSE UNCHANGED <<sent, hsState, callSender, timer, promise>>
    /\ acks' = IF listening /\ event.hasData /\ event.penpal = "ack"
                  /\ event.origin = childOrigin
               THEN Append(acks, event.methodNames) ELSE acks
    /\ UNCHANGED <<pc, options, childOrigin, originForSending, serializedMethods,
                   destroyed, destroyCause, callbacks, cleanupRuns, listening, monitor,
                   destroyCalls>>

\* The connection timeout expires.
TimerFire ==
    /\ pc = "running"
    /\ timer = "armed"
    /\ timer' = "fired"
    /\ destroy(ConnectionTimedOut)
    /\ lastEvent' = [kind |-> "timeout", event |-> NoEvent]
    /\ UNCHANGED <<pc, options, childOrigin, originForSending, serializedMethods,
                   callbacks, hsState, sent, delivered, destroyCalls, acks, callSender>>

\* The iframe monitor finds the iframe removed from the document.
IframeRemoved ==
    /\ pc = "running"
    /\ monitor = "watching"
    /\ destroy(PeerLost)
    /\ lastEvent' = [kind |-> "removed", event |-> NoEvent]
    /\ UNCHANGED <<pc, options, childOrigin, originForSending, serializedMethods,
                   callbacks, timer, hsState, sent, delivered, destroyCalls, acks, callSender>>

\* The consumer calls connection.destroy().
ConnectionDestroy ==
    /\ pc = "running"
    /\ destroyCalls < MaxDestroyCalls
    /\ destroyCalls' = destroyCalls + 1
    /\ connectionDestroy
    /\ lastEvent' = [kind |-> "destroy", event |-> NoEvent]
    /\ UNCHANGED <<pc, options, childOrigin, originForSending, serializedMethods,
                   callbacks, timer, hsState, sent, delivered, acks, callSender>>

Next ==
    \/ Connect
    \/ ConnectThrows
    \/ \E event \in Events : Deliver(event)
    \/ TimerFire
    \/ IframeRemoved
    \/ ConnectionDestroy

Spec == Init /\ [][Next]_vars

\* The timer, once armed, does fire unless it is stopped first.
FairSpec == Spec /\ WF_vars(TimerFire)

TypeOK ==
    /\ pc \in {"init", "running", "threw"}
    /\ promise.state \in {"pending", "fulfilled", "rejected"}
    /\ timer \in {"off", "armed", "stopped", "fired"}
    /\ monitor \in {"idle", "watching", "stopped"}
    /\ hsState \in {"AwaitingSyn", "AwaitingAck", "Established"}
    /\ delivered \in 0..MaxDeliveries
    /\ destroyCalls \in 0..MaxDestroyCalls

\* ------------------------------------------------------------ properties
IsMessage(le) == le.kind = "message" /\ le.event.hasData

IsHandshake(le) == IsMessage(le) /\ le.event.penpal \in {"syn", "ack"}

IsExpectedAck(le) ==
    IsMessage(le) /\ le.event.penpal = "ack" /\ le.event.origin = childOrigin

IsExpectedSyn(le) ==
    IsMessage(le) /\ le.event.penpal = "syn" /\ le.event.origin = childOrigin

\* C1: whatever messages, timer fire, iframe removal and destroy() calls
\* follow, a settled result never changes again: it leaves "pending" at most
\* once and keeps its state, value and error from then on.
C1_SettlesAtMostOnce ==
    [][promise.state # "pending" => promise' = promise]_vars

\* C1 witness: the iframe is removed (a destroy with a cause, hence a call of
\* reject) after the result was fulfilled.
C1_Witness ==
    /\ lastEvent.kind = "removed"
    /\ promise.state = "fulfilled"
    /\ destroyCause = PeerLost

\* C2: an Ack of the expected principal delivered while the result is pending
\* and the attempt not destroyed fulfils the result with an interface whose
\* keys are exactly the names in that Ack's methodNames.
C2_AckFulfils ==
    [][(IsExpectedAck(lastEvent') /\ promise.state = "pending" /\ ~destroyed)
        => /\ promise'.state = "fulfilled"
           /\ promise'.value.defined
           /\ \A n \in {"add", "multiply"} :
                  n \in promise'.value.keys
                      <=> \E i \in DOMAIN lastEvent'.event.methodNames :
                              lastEvent'.event.methodNames[i] = n
           /\ promise'.value.keys \subseteq {"add", "multiply"}]_vars

\* C2 witness: an expected Ack arrived before an armed timer fired and the
\* result holds its names.
C2_Witness ==
    /\ IsExpectedAck(lastEvent)
    /\ Len(acks) = 1
    /\ timer = "stopped"
    /\ promise.state = "fulfilled"
    /\ promise.value.keys = {"add"}

\* C3: with a positive timeout the armed timer leads to a rejection with
\* ConnectionTimedOut, unless an Ack fulfilled the result or something else
\* destroyed the attempt first.
C3_TimeoutRejects ==
    (pc = "running" /\ timer = "armed")
        ~> \/ promise.state = "rejected" /\ promise.error = ConnectionTimedOut
           \/ promise.state = "fulfilled"
           \/ destroyed /\ destroyCause # ConnectionTimedOut

\* C3 witness: the timer fired on a pending attempt that no Ack had reached.
C3_Witness ==
    /\ lastEvent.kind = "timeout"
    /\ acks = <<>>
    /\ destroyCause = ConnectionTimedOut
    /\ promise.state = "rejected"
    /\ promise.error = ConnectionTimedOut

C5_ForeignOriginIgnored ==
    [][(IsHandshake(lastEvent') /\ lastEvent'.event.origin # childOrigin)
        => UNCHANGED <<sent, hsState, timer, promise, destroyed, destroyCause,
                       listening, monitor, cleanupRuns, acks, callSender>>]_vars

\* C5 witness: the listener got an Ack of another origin while the timer ran.
C5_Witness ==
    /\ IsHandshake(lastEvent)
    /\ lastEvent.event.penpal = "ack"
    /\ lastEvent.event.origin # childOrigin
    /\ listening
    /\ timer = "armed"
    /\ promise.state = "pending"

\* C6: once the listener has got Acks of the expected principal, the result is
\* fulfilled with the interface of the first Ack's names, however many follow.
C6_FirstAckWins ==
    Len(acks) >= 1
        => /\ promise.state = "fulfilled"
           /\ promise.value.defined
           /\ promise.value.keys = Range(acks[1])

\* C6 witness: a second Ack with other names was delivered.
C6_Witness ==
    /\ Len(acks) >= 2
    /\ IsExpectedAck(lastEvent)
    /\ Range(acks[2]) # Range(acks[1])

\* C7: whatever the number and order of destroy() calls, timer fire and
\* iframe removal, every registered cleanup has run at most once.
C7_CleanupRunsOnce ==
    \A c \in CleanupNames : cleanupRuns[c] <= 1

\* C7 witness: destroy() was called twice and the timer fired as well.
C7_Witness ==
    /\ destroyCalls >= 2
    /\ timer = "fired"
    /\ cleanupRuns["removeListener"] = 1

\* C8: once the attempt is destroyed the listener is unsubscribed and a
\* message delivered afterwards sends nothing and settles nothing.
C8_DestroyedIgnoresMessages ==
    [][destroyed
        => /\ ~listening
           /\ lastEvent'.kind = "message"
                  => UNCHANGED <<sent, hsState, timer, promise, acks, callSender>>]_vars

\* C8 witness: a Syn of the expected principal was delivered after the
\* attempt was destroyed.
C8_Witness ==
    /\ destroyed
    /\ IsExpectedSyn(lastEvent)
    /\ sent = <<>>

\* C9: a Syn of the expected principal makes the host send exactly one Ack
\* with the serialized methods to originForSending, and neither settles the
\* result nor stops the timer; only an expected Ack fulfils the result.
C9_SynSendsAck ==
    [][/\ (IsExpectedSyn(lastEvent') /\ listening)
           => /\ sent' = Append(sent, [penpal |-> "ack",
                                       methodNames |-> DOMAIN options.methods,
                                       target |-> originForSending])
              /\ UNCHANGED <<promise, timer>>
       /\ (promise.state = "pending" /\ promise'.state = "fulfilled")
           => IsExpectedAck(lastEvent')]_vars

\* C9 witness: the host has answered a Syn while the timer runs on.
C9_Witness ==
    /\ IsExpectedSyn(lastEvent)
    /\ Len(sent) = 1
    /\ sent[1].methodNames = {"add"}
    /\ timer = "armed"
    /\ promise.state = "pending"

\* C10: when the iframe is found removed while the result is pending, the
\* attempt is destroyed with the PeerLost cause and the result is rejected
\* with it.
C10_PeerLostRejects ==
    [][(lastEvent'.kind = "removed" /\ promise.state = "pending")
        => /\ destroyed'
           /\ destroyCause' = PeerLost
           /\ promise'.state = "rejected"
           /\ promise'.error = PeerLost]_vars

\* C10 witness: the iframe was removed after a Syn and before any Ack.
C10_Witness ==
    /\ lastEvent.kind = "removed"
    /\ hsState = "AwaitingAck"
    /\ promise.state = "rejected"
    /\ promise.error = PeerLost

\* C11: when no childOrigin is supplied and none can be derived from the
\* iframe, connectToChild does not proceed: no listener is registered, no
\* timer or iframe monitor is started and nothing is ever sent.
C11_UnresolvedOriginStops ==
    (pc # "init" /\ options.childOrigin = Absent /\ options.iframeSrc = Absent)
        => /\ pc = "threw"
           /\ ~listening
           /\ timer = "off"
           /\ monitor = "idle"
           /\ callbacks = <<>>
           /\ sent = <<>>

\* C11 witness: connectToChild was called without an origin and with a
\* positive timeout, and threw.
C11_Witness ==
    /\ pc = "threw"
    /\ lastEvent.kind = "throw"
    /\ options.timeout.given
    /\ options.timeout.ms > 0

\* The failure a destruction is reported as: its cause, or ConnectionDestroyed
\* when destroy was called without one.
FailureOf(cause) == IF cause = NoError THEN ConnectionDestroyed ELSE cause

C13_FulfilledMeansTimerStopped ==
    promise.state = "fulfilled"
        => /\ timer \in {"off", "stopped"}
           /\ destroyCause # ConnectionTimedOut

\* C13 witness: an Ack fulfilled the result while the timer was armed.
C13_Witness ==
    /\ IsExpectedAck(lastEvent)
    /\ hsState = "Established"
    /\ options.timeout.ms > 0
    /\ timer = "stopped"
    /\ listening

\* C14: an Ack of the expected principal that arrives when the attempt is
\* Established changes nothing: the interface is not rebuilt, the timer and
\* the result stay as they are.
C14_AckAfterEstablishedIgnored ==
    [][(hsState = "Established" /\ IsExpectedAck(lastEvent'))
        => UNCHANGED <<callSender, promise, timer, hsState, sent, destroyed,
                       destroyCause, listening, monitor, cleanupRuns>>]_vars

\* C14 witness: a second Ack with other names reached the listener of an
\* Established attempt.
C14_Witness ==
    /\ hsState = "Established"
    /\ listening
    /\ IsExpectedAck(lastEvent)
    /\ Len(acks) = 2
    /\ Range(acks[2]) # callSender.keys

\* C15 as stated: in every state where the attempt is destroyed the listener
\* is removed, the timer is no longer pending and the iframe watch is stopped.
C15_AllReleased ==
    destroyed
        => /\ ~listening
           /\ timer # "armed"
           /\ monitor # "watching"

\* C16: once the attempt is destroyed, a later trigger changes neither the
\* recorded cause, nor the number of cleanup runs, nor the result.
C16_FirstTriggerWins ==
    [][destroyed
        => UNCHANGED <<destroyed, destroyCause, cleanupRuns, promise, listening,
                       monitor>>]_vars

\* C16 witness: the timer fired after an explicit destroy().
C16_Witness ==
    /\ lastEvent.kind = "timeout"
    /\ destroyCause = NoError
    /\ destroyCalls >= 1
    /\ promise.state = "pending"

\* C17 as stated: the host sends at most one Ack in an attempt.
C17_AtMostOneAck ==
    Len(sent) <= 1

\* C17 amended: the host sends one Ack for every Syn of the expected principal
\* its listener gets, and nothing else.
C17_OneAckPerSyn ==
    [][Len(sent') = Len(sent)
                    + (IF IsExpectedSyn(lastEvent') /\ listening THEN 1 ELSE 0)]_vars

\* C17 witness: two Syn messages were answered.
C17_Witness ==
    /\ IsExpectedSyn(lastEvent)
    /\ Len(sent) = 2

\* C18: a message without data, or with a tag that is neither Syn nor Ack, is
\* ignored in every state.
C18_UntaggedIgnored ==
    [][(lastEvent'.kind = "message"
          /\ (~lastEvent'.event.hasData \/ lastEvent'.event.penpal \notin {"syn", "ack"}))
        => UNCHANGED <<sent, hsState, callSender, timer, promise, destroyed,
                       destroyCause, listening, monitor, cleanupRuns, acks>>]_vars

\* C18 witness: a call message of the expected principal reached the listener
\* of a pending attempt.
C18_Witness ==
    /\ lastEvent.kind = "message"
    /\ lastEvent.event.penpal = "call"
    /\ lastEvent.event.origin = childOrigin
    /\ listening
    /\ timer = "armed"
    /\ promise.state = "pending"

\* C19 as stated: originForSending is the wildcard exactly when the expected
\* origin is "null", and both are fixed.
C19_WildcardIffNull ==
    pc = "running"
        => /\ (originForSending = Wildcard) <=> (childOrigin = NullOrigin)
           /\ childOrigin # NullOrigin => originForSending = childOrigin

\* C19 amended: the expected origin and originForSending never change after
\* connectToChild returned; originForSending is the wildcard when the expected
\* origin is "null" and the expected origin otherwise; every message sent is
\* addressed to originForSending.
C19_SendingOriginFixed ==
    [][pc' = "running"
        => /\ childOrigin' = NullOrigin => originForSending' = Wildcard
           /\ childOrigin' # NullOrigin => originForSending' = childOrigin'
           /\ \A i \in DOMAIN sent' : sent'[i].target = originForSending'
           /\ pc = "running" => UNCHANGED <<childOrigin, originForSending>>]_vars

\* C19 witness: an Ack was posted to "*" for the "null" origin.
C19_Witness ==
    /\ childOrigin = NullOrigin
    /\ Len(sent) >= 1
    /\ sent[1].target = Wildcard

\* C20: the result is rejected only by a destruction whose first trigger
\* carried a cause; the handle's destroy() destroys without a cause, and a
\* destruction without a cause removes the listener and leaves the result
\* as it is, for good.
C20_RejectNeedsCause ==
    [][/\ promise'.state = "rejected"
           => (destroyed' /\ destroyCause' # NoError /\ promise'.error = destroyCause')
       /\ (lastEvent'.kind = "destroy" /\ ~destroyed)
           => (destroyed' /\ destroyCause' = NoError /\ ~listening' /\ promise' = promise)
       /\ (destroyed /\ destroyCause = NoError) => promise' = promise]_vars

\* C20 witness: after a destroy() on a pending attempt an Ack of the expected
\* principal was delivered and the result is still pending.
C20_Witness ==
    /\ destroyCause = NoError
    /\ destroyed
    /\ lastEvent.kind = "message"
    /\ lastEvent.event.penpal = "ack"
    /\ lastEvent.event.origin = childOrigin
    /\ promise.state = "pending"
====
